---- MODULE Spec2Model ----
(***************************************************************************)
(* A model of the ureq core: the LazyBuffers fill/consume state machine    *)
(* (src/src/transport/mod.rs), the Connector chain contract                *)
(* (src/src/transport/mod.rs) and the request dispatcher with its shared,  *)
(* mutex-guarded agent state (src/src/request.rs).                         *)
(***************************************************************************)
EXTENDS Integers, Sequences, FiniteSets, TLC

(* ------------------------------ bounds -------------------------------- *)

\* Largest input_size / output_size a LazyBuffers is constructed with.
MaxCap == 2

\* Largest usize argument passed to set_input_filled / consume_input.
\* It exceeds MaxCap so that fills larger than the capacity are exercised.
MaxAmount == 3

\* Longest connector chain configured.
MaxChain == 3

\* Calls made in all, over all threads.
MaxCalls == 2

\* Largest redirect budget a caller sets with Request::redirects.
MaxRedirects == 1


\* Request::new: redirects: 5.
DefaultRedirects == 5

(* ------------------------- Option<usize> ------------------------------ *)

\* Option<T>: None is the empty set, Some(x) the singleton.
None == {}

Some(x) == {x}

is_some(o) == o # {}

unwrap(o) == CHOOSE x \in o : TRUE

(* ------------------ results of a call on LazyBuffers ------------------ *)

\* A call returns normally with the object as it left it and a value ...
Return(self, ret) == [panic |-> FALSE, self |-> self, ret |-> ret]

\* ... or panics; self is the object as it was at the panic point.
Panic(self, msg) ==
    [panic |-> TRUE, self |-> self, ret |-> [kind |-> "panic", msg |-> msg]]

Unit == [kind |-> "unit"]

Usize(n) == [kind |-> "usize", value |-> n]

\* Buffers<'_>: the two borrowed regions, as index ranges [from, to) into
\* the input and output storage.
Buffers(ifrom, ito, olen) ==
    [kind |-> "Buffers",
     input |-> [from |-> ifrom, to |-> ito],
     output |-> [from |-> 0, to |-> olen]]

\* Vec::resize(n, 0) on an empty vector.
Zeroes(n) == [i \in 1..n |-> 0]

(* ----------------------------- LazyBuffers ---------------------------- *)

\* A constructor that allocates both vectors up front.
new_Eager(input_size, output_size) ==
    [input_size     |-> input_size,
     output_size    |-> output_size,
     input          |-> Zeroes(input_size),
     output         |-> Zeroes(output_size),
     input_filled   |-> None,
     input_consumed |-> 0]

\* LazyBuffers::new, for input_size > 0 and output_size > 0.
new(input_size, output_size) ==
    [input_size     |-> input_size,
     output_size    |-> output_size,
     input          |-> <<>>,
     output         |-> <<>>,
     input_filled   |-> None,
     input_consumed |-> 0]

\* LazyBuffers::borrow_mut
borrow_mut(self) ==
    LET s1 == IF self.input = <<>>
              THEN [self EXCEPT !.input = Zeroes(self.input_size)]
              ELSE self
        s2 == IF s1.output = <<>>
              THEN [s1 EXCEPT !.output = Zeroes(s1.output_size)]
              ELSE s1
    IN  IF is_some(s2.input_filled)
        THEN LET filled == unwrap(s2.input_filled)
             IN  \* &mut self.input[self.input_consumed..filled]
                 IF s2.input_consumed > filled \/ filled > Len(s2.input)
                 THEN Panic(s2, "slice index out of range")
                 ELSE Return(s2, Buffers(s2.input_consumed, filled, Len(s2.output)))
        ELSE Return(s2, Buffers(0, Len(s2.input), Len(s2.output)))

\* unconsumed that reports the filled amount and forgets what was consumed.
unconsumed_IgnoresConsumed(self) ==
    IF is_some(self.input_filled)
    THEN Return(self, Usize(unwrap(self.input_filled)))
    ELSE Return(self, Usize(0))

\* unconsumed with the subtraction the wrong way round and saturating: it
\* reports 0 whenever consumed <= filled.
unconsumed_Reversed(self) ==
    IF is_some(self.input_filled)
    THEN LET filled == unwrap(self.input_filled)
         IN  IF self.input_consumed >= filled
             THEN Return(self, Usize(self.input_consumed - filled))
             ELSE Return(self, Usize(0))
    ELSE Return(self, Usize(0))

\* LazyBuffers::unconsumed
unconsumed(self) ==
    IF is_some(self.input_filled)
    THEN LET filled == unwrap(self.input_filled)
         IN  \* filled.checked_sub(self.input_consumed).expect(..)
             IF filled >= self.input_consumed
             THEN Return(self, Usize(filled - self.input_consumed))
             ELSE Panic(self, "consumed is greater than filled")
    ELSE Return(self, Usize(0))

\* assert_and_clear_input_filled that unsets input_filled and leaves
\* input_consumed where it was.
assert_and_clear_KeepsConsumed(self) ==
    LET u == unconsumed(self)
    IN  IF u.panic THEN u
        ELSE IF u.ret.value > 0
        THEN Panic(self, "input contains unconsumed bytes")
        ELSE Return([self EXCEPT !.input_filled = None], Unit)

\* assert_and_clear_input_filled that clears without looking at what is left.
assert_and_clear_NoCheck(self) ==
    Return([self EXCEPT !.input_filled = None, !.input_consumed = 0], Unit)

\* LazyBuffers::assert_and_clear_input_filled
assert_and_clear_input_filled(self) ==
    LET u == unconsumed(self)
    IN  IF u.panic THEN u
        ELSE IF u.ret.value > 0
        THEN Panic(self, "input contains unconsumed bytes")
        ELSE Return([self EXCEPT !.input_filled = None, !.input_consumed = 0], Unit)

\* set_input_filled with the initial assert left out: the new fill
\* overwrites whatever was there.
set_input_filled_NoAssert(self, input_filled) ==
    Return([self EXCEPT !.input_filled = Some(input_filled)], Unit)

\* LazyBuffers::set_input_filled
set_input_filled(self, input_filled) ==
    LET c == assert_and_clear_input_filled(self)
    IN  IF c.panic THEN c
        ELSE Return([c.self EXCEPT !.input_filled = Some(input_filled)], Unit)

\* consume_input that clamps the amount to what is left instead of failing.
consume_input_Clamp(self, amount) ==
    IF ~ is_some(self.input_filled)
    THEN Panic(self, "consume without a filled buffer")
    ELSE LET u == unconsumed(self)
         IN  IF u.panic THEN u
             ELSE LET k == IF amount > u.ret.value THEN u.ret.value ELSE amount
                  IN  Return([self EXCEPT !.input_consumed = @ + k], Unit)

\* consume_input that advances input_consumed without comparing the amount
\* with what is left.
consume_input_Unchecked(self, amount) ==
    IF ~ is_some(self.input_filled)
    THEN Panic(self, "consume without a filled buffer")
    ELSE Return([self EXCEPT !.input_consumed = @ + amount], Unit)

\* consume_input without the assert that the buffer is filled.
consume_input_NoModeCheck(self, amount) ==
    LET u == unconsumed(self)
    IN  IF u.panic THEN u
        ELSE IF amount > u.ret.value
        THEN Panic(self, "consume more than unconsumed")
        ELSE Return([self EXCEPT !.input_consumed = @ + amount], Unit)

\* consume_input that checks but forgets to advance input_consumed.
consume_input_NoAdvance(self, amount) ==
    IF ~ is_some(self.input_filled)
    THEN Panic(self, "consume without a filled buffer")
    ELSE LET u == unconsumed(self)
         IN  IF u.panic THEN u
             ELSE IF amount > u.ret.value
             THEN Panic(self, "consume more than unconsumed")
             ELSE Return(self, Unit)

\* LazyBuffers::consume_input
consume_input(self, amount) ==
    IF ~ is_some(self.input_filled)
    THEN Panic(self, "consume without a filled buffer")
    ELSE LET u == unconsumed(self)
         IN  IF u.panic THEN u
             ELSE IF amount > u.ret.value
             THEN Panic(self, "consume more than unconsumed")
             ELSE Return([self EXCEPT !.input_consumed = @ + amount], Unit)

(* --------------------------- Connector chain -------------------------- *)

\* Result<Option<Box<dyn Transport>>, Error> of Connector::connect. A transport
\* is the sequence of the connectors that produced and wrapped it, innermost first.
Ok(value) == [kind |-> "Ok", value |-> value]

Err(e) == [kind |-> "Err", error |-> e]

\* DefaultConnector::connect: todo!() panics, whatever it is given.
DefaultConnector_connect(details, previous) ==
    [kind |-> "panic", msg |-> "not yet implemented"]

\* What an implementation of Connector::connect at position i of the chain may
\* return when handed `chained`: Ok(None), the input unchanged, the input
\* wrapped, a transport of its own, or an error.
ConnectorResults(i, chained) ==
    {Ok(None), Ok(chained), Ok(Some(<<i>>)), Err(i)}
        \cup { Ok(Some(Append(t, i))) : t \in chained }

\* The state of a connect attempt before any connector has run.
ChainStart(chain) ==
    [chain |-> chain, pos |-> 1, chained |-> None, status |-> "running",
     error |-> None, log |-> <<>>]

\* A chain that treats an Err like "not applicable" and goes on to the next
\* connector.
ChainStep_ErrFallsThrough(st, res) ==
    LET logged == [st EXCEPT !.log = Append(@, [conn |-> st.pos, res |-> res])]
    IN  IF res.kind = "panic"
        THEN [logged EXCEPT !.status = "panic"]
        ELSE IF res.kind = "Err"
        THEN [logged EXCEPT !.pos = @ + 1]
        ELSE [logged EXCEPT !.chained = res.value, !.pos = @ + 1]

\* The chain takes the result of the connector at st.pos: an Err ends the
\* attempt with that error, an Ok value becomes `chained` for the next
\* connector, a panic unwinds through the chain.
ChainStep(st, res) ==
    LET logged == [st EXCEPT !.log = Append(@, [conn |-> st.pos, res |-> res])]
    IN  IF res.kind = "panic"
        THEN [logged EXCEPT !.status = "panic"]
        ELSE IF res.kind = "Err"
        THEN [logged EXCEPT !.status = "err", !.error = Some(res.error)]
        ELSE [logged EXCEPT !.chained = res.value, !.pos = @ + 1]

\* After the last connector: the transport built, or ConnectionFailed when the
\* chain produced none.
ChainEnd(st) ==
    IF is_some(st.chained)
    THEN [st EXCEPT !.status = "ok"]
    ELSE [st EXCEPT !.status = "err", !.error = Some("ConnectionFailed")]

(* ------------------------------- state -------------------------------- *)

VARIABLES
    buf,        \* the LazyBuffers under test
    call,       \* the last call made on buf: operation, argument, state before, result
    fillArg,    \* Option: the argument of the set_input_filled that began the current fill
    consumeSum, \* sum of the amounts of the successful consume_input calls since that fill
    aborted,    \* a call on buf has panicked
    run,        \* one connect attempt through the connector chain
    holder,     \* per shared state cell (Arc<Mutex<..>>): the thread holding the mutex
    poisoned,   \* per cell: a thread panicked while holding the mutex
    pool,       \* per cell: the ConnectionPool of its AgentState, destination -> idle transport
    jar,        \* per cell: the cookie jar of its AgentState, the cookies stored
    last,       \* per cell and destination: how the latest exchange with it ended
    req,        \* per thread: the Request it is calling (state, path, redirects)
    pc,         \* per thread: where it is in do_call
    loc,        \* per thread: the locals of do_call and of the dispatcher
    result,     \* per thread: what its latest call returned
    ncalls      \* calls started so far, over all threads

bufVars == <<buf, call, fillArg, consumeSum, aborted>>

chainVars == <<run>>

callVars == <<holder, poisoned, pool, jar, last, req, pc, loc, result, ncalls>>

vars == <<buf, call, fillArg, consumeSum, aborted, run,
          holder, poisoned, pool, jar, last, req, pc, loc, result, ncalls>>

NoCall == [op |-> "new", arg |-> 0, pre |-> new(1, 1), fill |-> None, sum |-> 0,
           ret |-> Unit, panic |-> FALSE]

\* The record of a call: what was called, on what, and what came back.
Called(op, arg, r) ==
    [op |-> op, arg |-> arg, pre |-> buf, fill |-> fillArg, sum |-> consumeSum,
     ret |-> r.ret, panic |-> r.panic]

\* The variables outside the LazyBuffers, the connector chain, the dispatcher.
notBuf == <<run, holder, poisoned, pool, jar, last, req, pc, loc, result, ncalls>>

notChain == <<buf, call, fillArg, consumeSum, aborted,
              holder, poisoned, pool, jar, last, req, pc, loc, result, ncalls>>

notCall == <<buf, call, fillArg, consumeSum, aborted, run>>

\* A LazyBuffers as LazyBuffers::new(i, o) leaves it.
BufNew(i, o) ==
    /\ buf = new(i, o)
    /\ call = NoCall
    /\ fillArg = None
    /\ consumeSum = 0
    /\ aborted = FALSE

\* No connect attempt is under way.
ChainIdle == run = ChainStart(<<>>)

(* ------------------------ Request and dispatcher ---------------------- *)

\* The calling threads; each owns one Request (a clone shares `state`).
Threads == {"t1", "t2"}

NoThread == "nobody"

\* The shared cells Arc<Mutex<Option<AgentState>>> that requests point to: one
\* holding Some(AgentState) (pool and jar), one holding None.
Cells == {"some", "none"}

\* state.as_mut() is Some(state).
HasState(c) == c = "some"

\* The values a caller gives its three timeouts (connect, read, write): all
\* 0, the default, meaning no timeout, or all a number of milliseconds.
Millis == {0, 1000}

\* The cookies a response may set.
Cookies == {"sid"}

\* Destinations (scheme, host, port) a path or a Location header resolves to.
Dests == {"d1", "d2"}

\* Request.path: one per destination, and one that URL_BASE.join rejects.
Paths == Dests \cup {"bad"}

\* to_url that falls back on the base URL when the join fails.
to_url_Lenient(r) == IF r.path = "bad" THEN Ok("d1") ELSE Ok(r.path)

\* Request::to_url: Err(BadUrl) when the join fails, else the URL.
to_url(r) == IF r.path = "bad" THEN Err("BadUrl") ELSE Ok(r.path)

\* ConnectionPool::new(): no idle transport for any destination.
ConnectionPool_new == [d \in Dests |-> None]

\* A transport the connector chain produced, with its own LazyBuffers (here of
\* the smallest sizes LazyBuffers::new accepts).
Transport(id) == [id |-> id, buffers |-> new(1, 1)]

\* How the latest exchange with a destination ended: there was none or it
\* failed; or a response arrived, with Connection: close, or without it and
\* read to the end ("keep"), or without it and with unread bytes left.
NoExchange == "none"

Responded(close, drained) ==
    IF close THEN "close" ELSE IF drained THEN "keep" ELSE "undrained"

Failed == "none"

\* The locals of a call before the dispatcher is entered.
NoLocals ==
    [entered   |-> FALSE,            \* ConnectionPool::connect was called
     url       |-> "d1",             \* the current URL's destination
     budget    |-> 0,                \* redirects left
     hops      |-> 0,                \* redirects followed
     all302    |-> TRUE,             \* every response so far was a 302 with Location
     tr        |-> None,             \* the transport checked out
     cand      |-> None,             \* what the pool lookup found
     reused    |-> FALSE,            \* tr came from the pool
     retried   |-> FALSE,            \* the stale-connection retry was used
     chainRuns |-> 0,                \* connector chain invocations for this exchange
     prev      |-> NoExchange,       \* how the previous exchange with url ended
     onePool   |-> ConnectionPool_new] \* the one-off pool of a call without state

NoResult == [kind |-> "none"]

\* The mutex of cell c can be taken: Mutex::lock blocks while another holds it.
MutexFree_NoMutex(c) == TRUE

MutexFree(c) == holder[c] = NoThread

\* The redirect budget do_call hands to ConnectionPool::connect.
Budget_Default(t) == DefaultRedirects

Budget(t) == req[t].redirects

\* match state.as_mut(): Some(state) => state.pool is used, None => a one-off
\* ConnectionPool::new().
UsesAgentPool_Never(t) == FALSE

UsesAgentPool(t) == HasState(req[t].state)

\* The pool a call works on.
PoolOf(t) == IF UsesAgentPool(t) THEN pool[req[t].state] ELSE loc[t].onePool

\* No call is under way on any thread.
CallIdle ==
    /\ holder = [c \in Cells |-> NoThread]
    /\ poisoned = [c \in Cells |-> FALSE]
    /\ pool = [c \in Cells |-> ConnectionPool_new]
    /\ jar = [c \in Cells |-> {}]
    /\ last = [c \in Cells |-> [d \in Dests |-> NoExchange]]
    /\ pc = [t \in Threads |-> "idle"]
    /\ loc = [t \in Threads |-> NoLocals]
    /\ result = [t \in Threads |-> NoResult]
    /\ ncalls = 0

\* Request::new without the `redirects: 5` line: every field not named comes
\* from Default::default().
Request_new_AllDefault(state, path) ==
    [state |-> state, path |-> path, redirects |-> 0,
     timeout |-> 0, timeout_read |-> 0, timeout_write |-> 0]

\* Request::new(agent, method, path): redirects: 5, and the timeouts from
\* Default::default(), 0.
Request_new(state, path) ==
    [state |-> state, path |-> path, redirects |-> DefaultRedirects,
     timeout |-> 0, timeout_read |-> 0, timeout_write |-> 0]

\* Request::redirects(n).
redirects(r, n) == [r EXCEPT !.redirects = n]

\* Request::timeout(millis), the timeout of the socket connection.
timeout(r, millis) == [r EXCEPT !.timeout = millis]

\* Request::timeout_read(millis).
timeout_read(r, millis) == [r EXCEPT !.timeout_read = millis]

\* Request::timeout_write(millis).
timeout_write(r, millis) == [r EXCEPT !.timeout_write = millis]

\* Request::build: self.clone(). The clone shares `state` (an Arc) and has its
\* own copy of every other field.
build(r) == r

InitBuf ==
    /\ \E i \in 1..MaxCap, o \in 1..MaxCap : BufNew(i, o)
    /\ ChainIdle
    /\ CallIdle
    /\ req = [t \in Threads |-> Request_new("some", "d1")]

\* A caller invokes set_input_filled(n).
SetInputFilled ==
    /\ ~ aborted
    /\ \E n \in 0..MaxAmount :
         LET r == set_input_filled(buf, n)
         IN  /\ buf' = r.self
             /\ call' = Called("set_input_filled", n, r)
             /\ aborted' = r.panic
             /\ UNCHANGED notBuf
             /\ fillArg' = IF r.panic THEN fillArg ELSE Some(n)
             /\ consumeSum' = IF r.panic THEN consumeSum ELSE 0

\* A caller invokes consume_input(k).
ConsumeInput ==
    /\ ~ aborted
    /\ \E k \in 0..MaxAmount :
         LET r == consume_input(buf, k)
         IN  /\ buf' = r.self
             /\ call' = Called("consume_input", k, r)
             /\ aborted' = r.panic
             /\ UNCHANGED notBuf
             /\ consumeSum' = IF r.panic THEN consumeSum ELSE consumeSum + k
             /\ UNCHANGED fillArg

\* A caller invokes assert_and_clear_input_filled().
AssertAndClearInputFilled ==
    /\ ~ aborted
    /\ LET r == assert_and_clear_input_filled(buf)
       IN  /\ buf' = r.self
           /\ call' = Called("assert_and_clear_input_filled", 0, r)
           /\ aborted' = r.panic
           /\ UNCHANGED notBuf
           /\ fillArg' = IF r.panic THEN fillArg ELSE None
           /\ consumeSum' = IF r.panic THEN consumeSum ELSE 0

\* A caller invokes unconsumed().
Unconsumed ==
    /\ ~ aborted
    /\ LET r == unconsumed(buf)
       IN  /\ buf' = r.self
           /\ call' = Called("unconsumed", 0, r)
           /\ aborted' = r.panic
           /\ UNCHANGED notBuf
           /\ UNCHANGED <<fillArg, consumeSum>>

\* A caller invokes borrow_mut().
BorrowMut ==
    /\ ~ aborted
    /\ LET r == borrow_mut(buf)
       IN  /\ buf' = r.self
           /\ call' = Called("borrow_mut", 0, r)
           /\ aborted' = r.panic
           /\ UNCHANGED notBuf
           /\ UNCHANGED <<fillArg, consumeSum>>

NextBuf ==
    \/ SetInputFilled
    \/ ConsumeInput
    \/ AssertAndClearInputFilled
    \/ Unconsumed
    \/ BorrowMut

SpecBuf == InitBuf /\ [][NextBuf]_vars

(* ----------------------- LazyBuffers: properties ---------------------- *)

\* The unconsumed amount of a Filled buffer, filled - consumed, from its fields.
Remaining(b) == unwrap(b.input_filled) - b.input_consumed

\* C1: when assert_and_clear_input_filled() is called after a
\* set_input_filled(n) and consume_input calls whose amounts sum to exactly n,
\* it does not panic and leaves the buffer Free: input_filled unset,
\* input_consumed 0, unconsumed() 0.
C1_DrainedFillClears ==
    ( /\ call.op = "assert_and_clear_input_filled"
      /\ is_some(call.fill)
      /\ call.sum = unwrap(call.fill) )
    => /\ ~ call.panic
       /\ buf.input_filled = None
       /\ buf.input_consumed = 0
       /\ unconsumed(buf) = Return(buf, Usize(0))

\* A fill of at least two bytes was consumed in full by more than one
\* consume_input call and then cleared.
C1_Witness ==
    /\ call.op = "assert_and_clear_input_filled"
    /\ is_some(call.fill)
    /\ unwrap(call.fill) >= 2
    /\ call.sum = unwrap(call.fill)
    /\ call.pre.input_consumed = 2
    /\ ~ call.panic
    /\ buf.input_filled = None

\* C2: consume_input(k) on a Filled buffer with k greater than filled - consumed
\* panics, and the buffer's input_filled and input_consumed are as before the call.
C2_OverConsumePanics ==
    ( /\ call.op = "consume_input"
      /\ is_some(call.pre.input_filled)
      /\ call.arg > Remaining(call.pre) )
    => /\ call.panic
       /\ buf.input_filled = call.pre.input_filled
       /\ buf.input_consumed = call.pre.input_consumed

\* A partly consumed fill on which a consume_input asked for more than was left.
C2_Witness ==
    /\ call.op = "consume_input"
    /\ is_some(call.pre.input_filled)
    /\ call.pre.input_consumed > 0
    /\ Remaining(call.pre) > 0
    /\ call.arg > Remaining(call.pre)
    /\ call.panic

\* C3: set_input_filled(n) on a buffer that still holds unconsumed bytes
\* (consumed < filled) panics for every n and leaves input_filled and
\* input_consumed as they were.
C3_FillOverUnconsumedPanics ==
    ( /\ call.op = "set_input_filled"
      /\ is_some(call.pre.input_filled)
      /\ call.pre.input_consumed < unwrap(call.pre.input_filled) )
    => /\ call.panic
       /\ buf.input_filled = call.pre.input_filled
       /\ buf.input_consumed = call.pre.input_consumed

\* A second fill was attempted on a partly consumed buffer.
C3_Witness ==
    /\ call.op = "set_input_filled"
    /\ is_some(call.pre.input_filled)
    /\ call.pre.input_consumed > 0
    /\ call.pre.input_consumed < unwrap(call.pre.input_filled)
    /\ call.arg # unwrap(call.pre.input_filled)
    /\ call.panic

\* C9: whenever the buffer is Filled, consumed <= filled <= input_size.
C9_FilledWithinCapacity ==
    is_some(buf.input_filled)
    => /\ buf.input_consumed <= unwrap(buf.input_filled)
       /\ unwrap(buf.input_filled) <= buf.input_size

\* C10: borrow_mut() on a Filled buffer returns, and the input it hands out is
\* the range [consumed, filled), of length unconsumed(); on a Free buffer the
\* input is the whole storage of input_size bytes.
C10_BorrowScopedToUnconsumed ==
    call.op = "borrow_mut"
    => IF is_some(call.pre.input_filled)
       THEN /\ ~ call.panic
            /\ call.ret = Buffers(call.pre.input_consumed,
                                  unwrap(call.pre.input_filled),
                                  call.pre.output_size)
            /\ call.ret.input.to - call.ret.input.from
                   = unconsumed(call.pre).ret.value
       ELSE /\ ~ call.panic
            /\ call.ret = Buffers(0, call.pre.input_size, call.pre.output_size)

\* What C10 says, on the buffers whose fill fits the storage.
BorrowScopedWhenFillFits ==
    ( /\ call.op = "borrow_mut"
      /\ is_some(call.pre.input_filled)
      /\ unwrap(call.pre.input_filled) > call.pre.input_size )
    \/ C10_BorrowScopedToUnconsumed

(* ----------------------- Connector chain: actions --------------------- *)

\* The connectors a chain is built from: DefaultConnector, and any other
\* implementation of the Connector trait.
ConnectorKinds == {"DefaultConnector", "Connector"}

\* The chains of one to MaxChain connectors.
Chains == UNION { [1..n -> ConnectorKinds] : n \in 1..MaxChain }

InitChain ==
    /\ BufNew(1, 1)
    /\ \E c \in Chains : run = ChainStart(c)
    /\ CallIdle
    /\ req = [t \in Threads |-> Request_new("some", "d1")]

\* The connector at run.pos, a DefaultConnector, is invoked.
DefaultConnectorConnect ==
    /\ run.status = "running"
    /\ run.pos <= Len(run.chain)
    /\ run.chain[run.pos] = "DefaultConnector"
    /\ run' = ChainStep(run, DefaultConnector_connect(run.pos, run.chained))
    /\ UNCHANGED notChain

\* The connector at run.pos, some other implementation, is invoked and returns.
ConnectorConnect ==
    /\ run.status = "running"
    /\ run.pos <= Len(run.chain)
    /\ run.chain[run.pos] = "Connector"
    /\ \E res \in ConnectorResults(run.pos, run.chained) :
         run' = ChainStep(run, res)
    /\ UNCHANGED notChain

\* Every connector has run: the attempt ends.
ChainFinish ==
    /\ run.status = "running"
    /\ run.pos > Len(run.chain)
    /\ run' = ChainEnd(run)
    /\ UNCHANGED notChain

NextChain ==
    \/ DefaultConnectorConnect
    \/ ConnectorConnect
    \/ ChainFinish

SpecChain == InitChain /\ [][NextChain]_vars

(* ---------------------- Connector chain: properties ------------------- *)

\* C8: in a chain of any length, after a connector returned Ok(None) the next
\* connector of the chain is the one that runs (the attempt is still running
\* and positioned on it, and whatever ran next is that connector); an Err from
\* a connector at any position is the last thing the chain invoked, and the
\* attempt has ended with that error.
C8_NonePassesOnErrAborts ==
    \A i \in 1..Len(run.log) :
        LET e == run.log[i]
        IN  /\ e.res = Ok(None) =>
                IF i < Len(run.log)
                THEN run.log[i + 1].conn = e.conn + 1
                ELSE /\ run.pos = e.conn + 1
                     /\ (e.conn < Len(run.chain) => run.status = "running")
            /\ e.res.kind = "Err" =>
                /\ i = Len(run.log)
                /\ run.status = "err"
                /\ run.error = Some(e.res.error)
                /\ run.pos = e.conn

\* A chain of three in which the first connector returned Ok(None), the second
\* ran and returned Err, and the third never ran.
C8_Witness ==
    /\ Len(run.chain) = 3
    /\ Len(run.log) = 2
    /\ run.log[1].res = Ok(None)
    /\ run.log[2].conn = 2
    /\ run.log[2].res.kind = "Err"
    /\ run.status = "err"

(* ------------------------- Dispatcher: actions ------------------------ *)

\* The threads hold clones of one agent, built (state Some) or not (state
\* None), so their requests share its cell.
InitCall ==
    /\ BufNew(1, 1)
    /\ ChainIdle
    /\ CallIdle
    /\ \E c \in Cells :
         req = [t \in Threads |-> Request_new(c, "d1")]

\* The transports that exist: idle in a pool, checked out, or found by a lookup.
IdsOf(o) == { x.id : x \in o }

IdsIn(p) == UNION { IdsOf(p[d]) : d \in Dests }

Live ==
    UNION ( { IdsIn(pool[c]) : c \in Cells }
            \cup { IdsIn(loc[t].onePool) : t \in Threads }
            \cup { IdsOf(loc[t].tr) : t \in Threads }
            \cup { IdsOf(loc[t].cand) : t \in Threads } )

MaxIds == Cardinality(Dests) * (Cardinality(Cells) + Cardinality(Threads))
              + Cardinality(Threads) + Cardinality(Threads)

\* The identity of a newly connected transport: the first one not in use.
FreshId == CHOOSE i \in 1..MaxIds : i \notin Live /\ \A j \in 1..(i - 1) : j \in Live

\* The pools after the call of t stored v for destination d in its pool.
SharedPoolWith(t, d, v) ==
    IF UsesAgentPool(t) THEN [pool EXCEPT ![req[t].state][d] = v] ELSE pool

\* The jars after the call of t stored the cookies of a response: do_call
\* passes Some(jar) with shared agent state and None without.
JarWith(t, cookies) ==
    IF UsesAgentPool(t) THEN [jar EXCEPT ![req[t].state] = @ \cup cookies] ELSE jar

OnePoolWith(t, d, v) ==
    IF UsesAgentPool(t) THEN loc[t].onePool ELSE [loc[t].onePool EXCEPT ![d] = v]

\* `last` after the exchange of t with its current destination ended as e.
LastWith(t, e) == [last EXCEPT ![req[t].state][loc[t].url] = e]

\* A panic unwinds out of do_call on thread t: the MutexGuard is dropped while
\* panicking, which poisons and releases the mutex; the locals are dropped.
Unwind(t) ==
    /\ pc' = [pc EXCEPT ![t] = "panicked"]
    /\ poisoned' = [poisoned EXCEPT ![req[t].state] = TRUE]
    /\ holder' = [holder EXCEPT ![req[t].state] = NoThread]
    /\ loc' = [loc EXCEPT ![t] = NoLocals]
    /\ last' = IF loc[t].entered THEN LastWith(t, Failed) ELSE last
    /\ UNCHANGED <<pool, jar, req, result, ncalls>>

\* The locals once ConnectionPool::connect has returned: the transport, the
\* lookup result and a one-off pool are dropped; what is kept is the history of
\* the call.
Returned(l) ==
    [NoLocals EXCEPT !.entered = TRUE, !.hops = l.hops, !.all302 = l.all302]

\* The dispatcher of t fails with error e: the transport is dropped.
Fail(t, e) ==
    /\ pc' = [pc EXCEPT ![t] = "finishing"]
    /\ result' = [result EXCEPT ![t] = Err(e)]
    /\ loc' = [loc EXCEPT ![t] = Returned(loc[t])]
    /\ last' = LastWith(t, Failed)
    /\ UNCHANGED <<holder, poisoned, pool, jar, req, ncalls>>

\* The one retry after a connection-level error on a reused transport: the
\* stale transport is discarded and the connector chain runs fresh.
Retry(t) ==
    /\ pc' = [pc EXCEPT ![t] = "connecting"]
    /\ loc' = [loc EXCEPT ![t].tr = None, ![t].cand = None,
                          ![t].reused = FALSE, ![t].retried = TRUE]
    /\ UNCHANGED <<holder, poisoned, pool, jar, last, req, result, ncalls>>

\* An I/O error e on the transport of t.
IoError(t, e) ==
    IF e = "Io" /\ loc[t].reused /\ ~ loc[t].retried THEN Retry(t) ELSE Fail(t, e)

\* Thread t makes a request for some path with its agent, Request::new, sets
\* its redirect budget and its timeouts, and calls it.
NewCall(t) ==
    /\ pc[t] = "idle"
    /\ ncalls < MaxCalls
    /\ ncalls' = ncalls + 1
    /\ \E p \in Paths, n \in 0..MaxRedirects, ms \in Millis :
         req' = [req EXCEPT ![t] =
                   timeout_write(timeout_read(timeout(
                       redirects(Request_new(req[t].state, p), n), ms), ms), ms)]

\* do_call: self.state.lock() while another thread holds the mutex: the call
\* has begun and the thread waits in lock().
DoCallWait(t) ==
    /\ NewCall(t)
    /\ ~ MutexFree(req[t].state)
    /\ pc' = [pc EXCEPT ![t] = "calling"]
    /\ UNCHANGED <<holder, poisoned, pool, jar, last, loc, result>>
    /\ UNCHANGED notCall

\* A lock that recovers the guard of a poisoned mutex instead of unwrapping
\* the error.
LockUnwrap_IgnoresPoison(t) ==
    /\ MutexFree(req[t].state)
    /\ pc' = [pc EXCEPT ![t] = "locked"]
    /\ holder' = [holder EXCEPT ![req[t].state] = t]
    /\ UNCHANGED <<poisoned, pool, jar, last, loc, result>>
    /\ UNCHANGED notCall

\* self.state.lock().unwrap(): the lock is taken when free; on a poisoned
\* mutex lock() returns Err and unwrap panics.
LockUnwrap(t) ==
    /\ MutexFree(req[t].state)
    /\ IF poisoned[req[t].state]
       THEN /\ pc' = [pc EXCEPT ![t] = "panicked"]
            /\ UNCHANGED holder
       ELSE /\ pc' = [pc EXCEPT ![t] = "locked"]
            /\ holder' = [holder EXCEPT ![req[t].state] = t]
    /\ UNCHANGED <<poisoned, pool, jar, last, loc, result>>
    /\ UNCHANGED notCall

\* do_call: the lock is taken by a thread that begins its call or has been
\* waiting.
DoCallLock(t) ==
    /\ \/ NewCall(t)
       \/ pc[t] = "calling" /\ UNCHANGED <<req, ncalls>>
    /\ LockUnwrap(t)

\* do_call: self.to_url().and_then(|url| ... connect(self, method, &url,
\* self.redirects, jar, payload)): a bad URL is the result, otherwise the
\* dispatcher is entered with the request's redirect budget.
DoCallToUrl(t) ==
    /\ pc[t] = "locked"
    /\ LET u == to_url(req[t])
       IN  IF u.kind = "Err"
           THEN /\ pc' = [pc EXCEPT ![t] = "finishing"]
                /\ result' = [result EXCEPT ![t] = u]
                /\ UNCHANGED loc
           ELSE /\ pc' = [pc EXCEPT ![t] = "resolving"]
                /\ loc' = [loc EXCEPT ![t] = [NoLocals EXCEPT !.entered = TRUE,
                                                             !.url = u.value,
                                                             !.budget = Budget(t)]]
                /\ UNCHANGED result
    /\ UNCHANGED <<holder, poisoned, pool, jar, last, req, ncalls>>
    /\ UNCHANGED notCall

\* Resolving: the destination of the current URL is looked up in the pool.
PoolLookup(t) ==
    /\ pc[t] = "resolving"
    /\ pc' = [pc EXCEPT ![t] = "connecting"]
    /\ loc' = [loc EXCEPT ![t].cand = PoolOf(t)[loc[t].url],
                          ![t].prev = last[req[t].state][loc[t].url]]
    /\ UNCHANGED <<holder, poisoned, pool, jar, last, req, result, ncalls>>
    /\ UNCHANGED notCall

\* Connecting, an idle transport was found: it is evicted from the pool and
\* checked out.
PoolCheckout(t) ==
    /\ pc[t] = "connecting"
    /\ is_some(loc[t].cand)
    /\ pc' = [pc EXCEPT ![t] = "sending"]
    /\ pool' = SharedPoolWith(t, loc[t].url, None)
    /\ loc' = [loc EXCEPT ![t].tr = loc[t].cand, ![t].cand = None,
                          ![t].reused = TRUE,
                          ![t].onePool = OnePoolWith(t, loc[t].url, None)]
    /\ UNCHANGED <<holder, poisoned, jar, last, req, result, ncalls>>
    /\ UNCHANGED notCall

\* Connecting, nothing idle: the connector chain runs and yields a transport
\* or an error; with a connect timeout set, the error may be the timeout.
ChainConnect(t) ==
    /\ pc[t] = "connecting"
    /\ ~ is_some(loc[t].cand)
    /\ \E status \in {"ok", "ConnectionFailed"}
                       \cup (IF req[t].timeout # 0 THEN {"ConnectTimeout"} ELSE {}) :
         IF status = "ok"
         THEN /\ pc' = [pc EXCEPT ![t] = "sending"]
              /\ loc' = [loc EXCEPT ![t].tr = Some(Transport(FreshId)),
                                    ![t].chainRuns = @ + 1]
              /\ UNCHANGED <<holder, poisoned, pool, jar, last, req, result, ncalls>>
         ELSE /\ pc' = [pc EXCEPT ![t] = "finishing"]
              /\ result' = [result EXCEPT ![t] = Err(status)]
              /\ loc' = [loc EXCEPT ![t] = Returned(loc[t])]
              /\ last' = LastWith(t, Failed)
              /\ UNCHANGED <<holder, poisoned, pool, jar, req, ncalls>>
    /\ UNCHANGED notCall

\* Connecting: a connector of the chain panics (DefaultConnector::connect).
ChainPanics(t) ==
    /\ pc[t] = "connecting"
    /\ ~ is_some(loc[t].cand)
    /\ DefaultConnector_connect(loc[t].url, None).kind = "panic"
    /\ Unwind(t)
    /\ UNCHANGED notCall

\* Sending: Transport::transmit_output returns Ok or an error; with a write
\* timeout set, the error may be the timeout.
TransmitOutput(t) ==
    /\ pc[t] = "sending"
    /\ \E r \in {"ok", "Io"}
                  \cup (IF req[t].timeout_write # 0 THEN {"WriteTimeout"} ELSE {}) :
         IF r = "ok"
         THEN /\ pc' = [pc EXCEPT ![t] = "receiving"]
              /\ UNCHANGED <<holder, poisoned, pool, jar, last, req, loc, result, ncalls>>
         ELSE IoError(t, r)
    /\ UNCHANGED notCall

\* Receiving: Transport::await_input fails; with a read timeout set, the error
\* may be the timeout.
AwaitInputFails(t) ==
    /\ pc[t] = "receiving"
    /\ \E e \in {"Io"}
                  \cup (IF req[t].timeout_read # 0 THEN {"ReadTimeout"} ELSE {}) :
         IoError(t, e)
    /\ UNCHANGED notCall

\* The timeout that bounds the phase the call of t is in.
PhaseTimeout(t) ==
    CASE pc[t] = "connecting" -> req[t].timeout
      [] pc[t] = "sending"    -> req[t].timeout_write
      [] pc[t] = "receiving"  -> req[t].timeout_read
      [] OTHER                -> 0

\* Connecting, sending or receiving with a timeout of 0: the peer stays silent
\* and the blocking operation never returns.
BlocksForever(t) ==
    /\ pc[t] \in {"connecting", "sending", "receiving"}
    /\ pc[t] = "connecting" => ~ is_some(loc[t].cand)
    /\ PhaseTimeout(t) = 0
    /\ pc' = [pc EXCEPT ![t] = "blocked"]
    /\ UNCHANGED <<holder, poisoned, pool, jar, last, req, loc, result, ncalls>>
    /\ UNCHANGED notCall

\* Receiving: await_input reads n bytes (set_input_filled(n)), the dispatcher
\* consumes k of them, and the response is complete: a 200, or a 302 with a
\* Location header, and the cookies it sets go to the jar. The transport goes
\* back to the pool when the response
\* allows keep-alive and its buffers are drained, and is dropped otherwise. A
\* redirect is followed while budget is left.
AwaitInput(t) ==
    /\ pc[t] = "receiving"
    /\ \E status \in {200, 302}, location \in Dests, close \in BOOLEAN,
          set_cookie \in SUBSET Cookies,
          n \in 1..unwrap(loc[t].tr).buffers.input_size :
         \E k \in 0..n :
           LET tr      == unwrap(loc[t].tr)
               filled  == set_input_filled(tr.buffers, n)
               read    == consume_input(filled.self, k)
               left    == unconsumed(read.self)
               drained == left.ret.value = 0
               back    == [tr EXCEPT !.buffers = read.self]
               offer   == IF ~ close /\ drained THEN Some(back) ELSE None
               l1      == [loc[t] EXCEPT !.tr = None,
                                         !.reused = FALSE, !.retried = FALSE,
                                         !.chainRuns = 0, !.prev = NoExchange,
                                         !.all302 = @ /\ status = 302,
                                         !.onePool = OnePoolWith(t, loc[t].url, offer)]
           IN  IF filled.panic \/ read.panic \/ left.panic
               THEN Unwind(t)
               ELSE /\ pool' = SharedPoolWith(t, loc[t].url, offer)
                    /\ last' = LastWith(t, Responded(close, drained))
                    /\ jar' = JarWith(t, set_cookie)
                    /\ UNCHANGED <<holder, poisoned, req, ncalls>>
                    /\ IF status = 302
                       THEN IF loc[t].budget = 0
                            THEN /\ pc' = [pc EXCEPT ![t] = "finishing"]
                                 /\ result' = [result EXCEPT ![t] = Err("TooManyRedirects")]
                                 /\ loc' = [loc EXCEPT ![t] = Returned(l1)]
                            ELSE /\ pc' = [pc EXCEPT ![t] = "resolving"]
                                 /\ loc' = [loc EXCEPT ![t] =
                                              [l1 EXCEPT !.budget = @ - 1,
                                                         !.hops = @ + 1,
                                                         !.url = location]]
                                 /\ UNCHANGED result
                       ELSE /\ pc' = [pc EXCEPT ![t] = "finishing"]
                            /\ result' = [result EXCEPT ![t] = Ok(status)]
                            /\ loc' = [loc EXCEPT ![t] = Returned(l1)]
    /\ UNCHANGED notCall

\* do_call returns its result to the caller: the MutexGuard `state` goes out
\* of scope, and with it the one-off pool of a call without state. The thread
\* is done with the request; its next one comes fresh from the agent.
DoCallReturn(t) ==
    /\ pc[t] = "finishing"
    /\ pc' = [pc EXCEPT ![t] = "idle"]
    /\ holder' = [holder EXCEPT ![req[t].state] = NoThread]
    /\ loc' = [loc EXCEPT ![t] = NoLocals]
    /\ result' = [result EXCEPT ![t] = NoResult]
    /\ req' = [req EXCEPT ![t] = Request_new(req[t].state, "d1")]
    /\ UNCHANGED <<poisoned, pool, jar, last, ncalls>>
    /\ UNCHANGED notCall

NextCall ==
    \/ \E t \in Threads : DoCallLock(t)
    \/ \E t \in Threads : DoCallToUrl(t)
    \/ \E t \in Threads : PoolLookup(t)
    \/ \E t \in Threads : PoolCheckout(t)
    \/ \E t \in Threads : ChainConnect(t)
    \/ \E t \in Threads : ChainPanics(t)
    \/ \E t \in Threads : TransmitOutput(t)
    \/ \E t \in Threads : AwaitInputFails(t)
    \/ \E t \in Threads : AwaitInput(t)
    \/ \E t \in Threads : BlocksForever(t)
    \/ \E t \in Threads : DoCallReturn(t)

SpecCall == InitCall /\ [][NextCall]_vars

(* ------------------------- Building a request ------------------------ *)

\* Thread t takes a new request for some path from its agent.
RequestNew(t) ==
    /\ pc[t] = "idle"
    /\ \E p \in Paths : req' = [req EXCEPT ![t] = Request_new(req[t].state, p)]
    /\ UNCHANGED <<holder, poisoned, pool, jar, last, pc, loc, result, ncalls>>
    /\ UNCHANGED notCall

\* Thread t calls redirects(n) on its request.
Redirects(t, n) ==
    /\ pc[t] = "idle"
    /\ req' = [req EXCEPT ![t] = redirects(req[t], n)]
    /\ UNCHANGED <<holder, poisoned, pool, jar, last, pc, loc, result, ncalls>>
    /\ UNCHANGED notCall

\* Thread t calls build() on its request and hands the copy to thread u.
Build(t, u) ==
    /\ t # u
    /\ pc[t] = "idle"
    /\ pc[u] = "idle"
    /\ req' = [req EXCEPT ![u] = build(req[t])]
    /\ UNCHANGED <<holder, poisoned, pool, jar, last, pc, loc, result, ncalls>>
    /\ UNCHANGED notCall

\* Thread t calls the request it holds, as built: Request::call, do_call up to
\* the lock.
Call(t) ==
    /\ pc[t] = "idle"
    /\ ncalls < MaxCalls
    /\ ncalls' = ncalls + 1
    /\ UNCHANGED req
    /\ LockUnwrap(t)

\* Requests are built, copied and called; a call is followed as far as
\* do_call's hand-over to ConnectionPool::connect.
NextReq ==
    \/ \E t \in Threads : RequestNew(t)
    \/ \E t \in Threads, n \in 0..MaxRedirects : Redirects(t, n)
    \/ \E t, u \in Threads : Build(t, u)
    \/ \E t \in Threads : Call(t)
    \/ \E t \in Threads : DoCallToUrl(t)
    \/ \E t \in Threads : DoCallReturn(t)

SpecReq == InitCall /\ [][NextReq]_vars

\* The threads hold requests of two agents with unrelated state: the request
\* of t1 points to one cell and that of t2 to the other.
InitUnrelated ==
    /\ BufNew(1, 1)
    /\ ChainIdle
    /\ CallIdle
    /\ \E c1, c2 \in Cells :
         /\ c1 # c2
         /\ req = [t \in Threads |-> Request_new(IF t = "t1" THEN c1 ELSE c2, "d1")]

\* Calls that end before a response arrives: with the URL rejected, with a
\* connect or transport error, blocked, or with a panic in the connector chain.
NextPoison ==
    \/ \E t \in Threads : DoCallLock(t)
    \/ \E t \in Threads : DoCallToUrl(t)
    \/ \E t \in Threads : PoolLookup(t)
    \/ \E t \in Threads : ChainConnect(t)
    \/ \E t \in Threads : ChainPanics(t)
    \/ \E t \in Threads : TransmitOutput(t)
    \/ \E t \in Threads : AwaitInputFails(t)
    \/ \E t \in Threads : BlocksForever(t)
    \/ \E t \in Threads : DoCallReturn(t)

\* Such calls, made by requests that share state or by requests that do not.
SpecPoison == (InitCall \/ InitUnrelated) /\ [][NextPoison]_vars

\* The dispatcher with the waiting for the mutex made visible: a thread that
\* calls while another holds the lock sits in lock() until it is released.
NextLive ==
    \/ NextCall
    \/ \E t \in Threads : DoCallWait(t)

\* The steps that continue a call of t that has begun.
Proceed(t) ==
    /\ pc[t] # "idle"
    /\ \/ DoCallLock(t)
       \/ DoCallToUrl(t)
       \/ PoolLookup(t)
       \/ PoolCheckout(t)
       \/ ChainConnect(t)
       \/ ChainPanics(t)
       \/ TransmitOutput(t)
       \/ AwaitInputFails(t)
       \/ AwaitInput(t)
       \/ BlocksForever(t)
       \/ DoCallReturn(t)

\* Every thread is scheduled: a call that can take a step takes one. Nothing
\* obliges a thread to begin a call.
SpecLive ==
    InitCall /\ [][NextLive]_vars /\ \A t \in Threads : WF_vars(Proceed(t))

(* ------------------------ Dispatcher: properties ---------------------- *)

\* The phases in which a call is inside blocking transport work: the connect
\* attempt, transmit_output, await_input.
IOPhases == {"connecting", "sending", "receiving"}

\* C4: the mutex of the shared state is never held across blocking transport
\* I/O: a thread that is connecting, sending or receiving does not hold the lock
\* of its request's state (so that calls on clones of one handle can be in their
\* I/O at the same time).
C4_LockNotHeldAcrossIO ==
    \A t \in Threads : pc[t] \in IOPhases => holder[req[t].state] # t

\* What the code gives instead: of the calls on clones of one handle, at most
\* one is past the lock at any time.
CallsOnOneHandleSerialized ==
    \A t1, t2 \in Threads :
        (t1 # t2 /\ req[t1].state = req[t2].state)
        => ~ (pc[t1] \notin {"idle", "panicked"} /\ pc[t2] \notin {"idle", "panicked"})

\* The transports idle in some pool.
Pooled ==
    UNION ( { IdsIn(pool[c]) : c \in Cells }
            \cup { IdsIn(loc[t].onePool) : t \in Threads } )

\* C5: under every interleaving, a transport that is checked out is used by
\* one request only: no two threads hold the same transport, and a transport a
\* thread holds is not at the same time idle in a pool.
C5_TransportExclusive ==
    /\ \A t1, t2 \in Threads :
         (t1 # t2 /\ is_some(loc[t1].tr) /\ is_some(loc[t2].tr))
         => unwrap(loc[t1].tr).id # unwrap(loc[t2].tr).id
    /\ \A t \in Threads :
         is_some(loc[t].tr) => unwrap(loc[t].tr).id \notin Pooled

\* A thread is sending on a transport it checked out of the pool while the
\* other thread, on a clone of the same handle, has a call to make.
C5_Witness ==
    \E t1, t2 \in Threads :
        /\ t1 # t2
        /\ pc[t1] = "sending"
        /\ loc[t1].reused
        /\ is_some(loc[t1].tr)
        /\ req[t2].state = req[t1].state
        /\ pc[t2] = "idle"
        /\ ncalls < MaxCalls

\* The errors of the connect attempt and of the transport.
TransportErrors ==
    {Err("ConnectionFailed"), Err("ConnectTimeout"), Err("Io"),
     Err("WriteTimeout"), Err("ReadTimeout")}

\* C6: with redirect budget N = the request's redirects value, N = 0 included,
\* a call never follows more than N redirects; it fails with TooManyRedirects
\* only after exactly N; and a call in which every response was a 302 with a
\* Location header, and no connect or transport error occurred, ends with
\* TooManyRedirects.
C6_ExactlyNHops ==
    \A t \in Threads :
        /\ loc[t].hops <= req[t].redirects
        /\ (pc[t] = "finishing" /\ result[t] = Err("TooManyRedirects"))
           => loc[t].hops = req[t].redirects
        /\ ( /\ pc[t] = "finishing"
             /\ loc[t].entered
             /\ loc[t].all302
             /\ result[t] \notin TransportErrors )
           => result[t] = Err("TooManyRedirects")

\* A call with a budget of at least one followed that many redirects and then
\* failed with TooManyRedirects.
C6_Witness ==
    \E t \in Threads :
        /\ pc[t] = "finishing"
        /\ result[t] = Err("TooManyRedirects")
        /\ req[t].redirects >= 1
        /\ loc[t].hops = req[t].redirects
        /\ loc[t].all302

\* C7 as stated: for every request, with or without shared agent state, once
\* the exchange is connected (before any retry), if the previous response from
\* the same destination carried no Connection: close the transport came from
\* the pool and the connector chain did not run; if it carried Connection:
\* close the connector chain ran.
C7_ReuseUnlessClose ==
    \A t \in Threads :
        (pc[t] = "sending" /\ ~ loc[t].retried)
        => /\ loc[t].prev \in {"keep", "undrained"}
              => (loc[t].reused /\ loc[t].chainRuns = 0)
           /\ loc[t].prev = "close"
              => (~ loc[t].reused /\ loc[t].chainRuns = 1)

\* C7 as amended: with shared agent state (state is Some), after a response
\* from the same destination that carried no Connection: close and was read to
\* the end, the next exchange checks the pooled transport out and runs the
\* connector chain only for the one retry after that transport failed; after a
\* response with Connection: close, or one left with unread bytes, the chain
\* runs fresh. Without shared agent state the first exchange of every call
\* runs the chain fresh, whatever the previous response was.
C7_ReuseWithSharedState ==
    \A t \in Threads :
        pc[t] = "sending"
        => /\ (HasState(req[t].state) /\ loc[t].prev = "keep")
              => IF loc[t].retried
                 THEN ~ loc[t].reused /\ loc[t].chainRuns = 1
                 ELSE loc[t].reused /\ loc[t].chainRuns = 0
           /\ loc[t].prev \in {"close", "undrained"}
              => (~ loc[t].reused /\ loc[t].chainRuns = 1)
           /\ (~ HasState(req[t].state) /\ loc[t].hops = 0)
              => (~ loc[t].reused /\ loc[t].chainRuns = 1)

\* The first exchange of a call with shared agent state runs on the transport
\* the previous call to that destination left in the pool.
C7_Witness ==
    \E t \in Threads :
        /\ pc[t] = "sending"
        /\ HasState(req[t].state)
        /\ loc[t].hops = 0
        /\ loc[t].prev = "keep"
        /\ loc[t].reused
        /\ loc[t].chainRuns = 0

\* The transports idle in pool p of cell c came back with a response that
\* allowed keep-alive, and nothing of their input is left unconsumed.
IdleKeptAndDrained(c, p) ==
    \A d \in Dests : \A x \in p[d] :
        /\ last[c][d] = "keep"
        /\ is_some(x.buffers.input_filled) => Remaining(x.buffers) = 0

\* C11: after any sequence of requests, every transport idle in a connection
\* pool (the agent's or a call's one-off pool) was returned by a response that
\* permitted keep-alive and has fully drained buffers; after a response with
\* Connection: close, or one whose buffers still hold unconsumed bytes, the
\* pool holds no transport for that destination.
C11_PoolHoldsKeptAndDrained ==
    /\ \A c \in Cells : IdleKeptAndDrained(c, pool[c])
    /\ \A t \in Threads : IdleKeptAndDrained(req[t].state, loc[t].onePool)
    /\ \A c \in Cells, d \in Dests :
         last[c][d] \in {"close", "undrained"}
         => /\ pool[c][d] = None
            /\ \A t \in Threads : req[t].state = c => loc[t].onePool[d] = None

\* The agent's pool holds a drained keep-alive transport for one destination
\* while the transport of the other destination was dropped for unread bytes.
C11_Witness ==
    \E c \in Cells, d1, d2 \in Dests :
        /\ \E x \in pool[c][d1] :
             /\ is_some(x.buffers.input_filled)
             /\ x.buffers.input_consumed = unwrap(x.buffers.input_filled)
        /\ last[c][d1] = "keep"
        /\ last[c][d2] \in {"close", "undrained"}
        /\ pool[c][d2] = None

\* What connector number i of the attempt was handed as `chained`: nothing for
\* the first, the Ok value of the connector before it for the others.
ChainedInto(i) == IF i = 1 THEN None ELSE run.log[i - 1].res.value

\* A result that keeps the chained transport `chained`: the transport itself,
\* a transport wrapping it, or an error.
KeepsChained(res, chained) ==
    \/ res = Ok(chained)
    \/ /\ res.kind = "Ok"
       /\ \E t \in chained, w \in res.value :
            Len(w) = Len(t) + 1 /\ SubSeq(w, 1, Len(t)) = t
    \/ res.kind = "Err"

\* C12: a connector called with a non-None chained transport returns, and what
\* it returns is the chained transport unchanged, a transport wrapping it, or
\* an error, never Ok(None) or an unrelated transport. Stated of the connector
\* whose implementation the source holds, DefaultConnector.
C12_ConnectorKeepsChained ==
    \A i \in 1..Len(run.log) :
        ( /\ run.chain[run.log[i].conn] = "DefaultConnector"
          /\ is_some(ChainedInto(i)) )
        => /\ run.log[i].res.kind # "panic"
           /\ KeepsChained(run.log[i].res, ChainedInto(i))

\* The request of t has every per-phase timeout set.
Timed(t) ==
    /\ req[t].timeout # 0
    /\ req[t].timeout_read # 0
    /\ req[t].timeout_write # 0

\* C13: a call whose request has every per-phase timeout (connect, read,
\* write) nonzero, its redirect budget being finite, eventually ends: it
\* returns a response or an error (or, read generously, aborts fatally); it is
\* never left waiting without bound.
C13_TimedCallTerminates ==
    \A t \in Threads :
        (pc[t] \notin {"idle", "panicked"} /\ Timed(t))
        ~> (pc[t] \in {"finishing", "panicked"})

\* C14: the redirect budget is per request and defaults to 5. A request taken
\* from an agent carries budget 5; redirects(n) sets the budget of that request
\* to n and leaves every other request's budget alone; a build() copy starts
\* with the budget of its original and leaves the original alone; no other
\* step changes a request's budget; and the budget a call hands to the
\* dispatcher is the request's budget at the time of the call.
C14_BudgetPerRequest ==
    [][ \A t \in Threads :
          /\ (RequestNew(t) \/ DoCallReturn(t)) => req'[t].redirects = 5
          /\ \A n \in 0..MaxRedirects :
                Redirects(t, n)
                => /\ req'[t].redirects = n
                   /\ \A u \in Threads \ {t} : req'[u].redirects = req[u].redirects
          /\ \A u \in Threads :
                Build(t, u)
                => /\ req'[u].redirects = req[t].redirects
                   /\ req'[t].redirects = req[t].redirects
          /\ (Call(t) \/ DoCallToUrl(t)) => req'[t].redirects = req[t].redirects
          /\ (pc[t] = "locked" /\ pc'[t] = "resolving")
             => loc'[t].budget = req[t].redirects ]_vars

\* A call hands over the budget its request was given with redirects(n) while
\* the other thread's request still carries the default.
C14_Witness ==
    \E t, u \in Threads :
        /\ t # u
        /\ pc[t] = "resolving"
        /\ req[t].redirects # 5
        /\ loc[t].budget = req[t].redirects
        /\ pc[u] = "idle"
        /\ req[u].redirects = 5
        /\ req[u].path = req[t].path
        /\ req[t].path # "d1"

\* C15: consume_input(k) on a Free buffer panics for every k, k = 0 included,
\* and leaves the buffer Free with input_consumed 0.
C15_ConsumeOnFreePanics ==
    ( /\ call.op = "consume_input"
      /\ ~ is_some(call.pre.input_filled) )
    => /\ call.panic
       /\ buf.input_filled = None
       /\ buf.input_consumed = 0

\* consume_input(0) was called on a buffer that a fill, a full consume and a
\* clear had brought back to Free.
C15_Witness ==
    /\ call.op = "consume_input"
    /\ call.arg = 0
    /\ call.pre.input_filled = None
    /\ call.pre.input # <<>>
    /\ call.panic

\* C16: set_input_filled(n) called when nothing is unconsumed, on a Free buffer
\* or on a fully drained Filled(c, c) one with no clear in between, returns and
\* leaves the buffer Filled(0, n): input_filled n, input_consumed 0, n bytes
\* unconsumed.
C16_FillWhenDrained ==
    ( /\ call.op = "set_input_filled"
      /\ is_some(call.pre.input_filled) => Remaining(call.pre) = 0 )
    => /\ ~ call.panic
       /\ buf.input_filled = Some(call.arg)
       /\ buf.input_consumed = 0
       /\ Remaining(buf) = call.arg

\* A buffer Filled(c, c) with c > 0 was filled again without a clear.
C16_Witness ==
    /\ call.op = "set_input_filled"
    /\ is_some(call.pre.input_filled)
    /\ call.pre.input_consumed > 0
    /\ Remaining(call.pre) = 0
    /\ call.arg > 0
    /\ call.arg # call.pre.input_consumed
    /\ ~ call.panic

\* C17: assert_and_clear_input_filled() panics whenever consumed < filled and
\* then leaves input_filled and input_consumed as they were; whenever consumed
\* = filled it returns and leaves the buffer Free; on a Free buffer it returns
\* and changes nothing.
C17_ClearRequiresDrained ==
    call.op = "assert_and_clear_input_filled"
    => IF is_some(call.pre.input_filled)
       THEN IF call.pre.input_consumed < unwrap(call.pre.input_filled)
            THEN /\ call.panic
                 /\ buf.input_filled = call.pre.input_filled
                 /\ buf.input_consumed = call.pre.input_consumed
            ELSE /\ call.pre.input_consumed = unwrap(call.pre.input_filled)
                 /\ ~ call.panic
                 /\ buf.input_filled = None
                 /\ buf.input_consumed = 0
       ELSE /\ ~ call.panic
            /\ buf = call.pre

\* A clear was attempted on a partly consumed fill.
C17_Witness ==
    /\ call.op = "assert_and_clear_input_filled"
    /\ is_some(call.pre.input_filled)
    /\ call.pre.input_consumed > 0
    /\ call.pre.input_consumed < unwrap(call.pre.input_filled)
    /\ call.panic

\* C18: unconsumed() never panics and changes nothing; it returns filled -
\* consumed on a Filled buffer and 0 on a Free one; after set_input_filled(n)
\* and consume_input calls whose amounts total c it returns n - c.
C18_UnconsumedIsFilledMinusConsumed ==
    call.op = "unconsumed"
    => /\ ~ call.panic
       /\ buf = call.pre
       /\ call.ret.kind = "usize"
       /\ call.ret.value = IF is_some(call.pre.input_filled)
                           THEN Remaining(call.pre)
                           ELSE 0
       /\ is_some(call.fill) => call.ret.value = unwrap(call.fill) - call.sum

\* unconsumed() was asked on a fill of n >= 2 of which a part was consumed.
C18_Witness ==
    /\ call.op = "unconsumed"
    /\ is_some(call.fill)
    /\ unwrap(call.fill) >= 2
    /\ call.sum > 0
    /\ call.sum < unwrap(call.fill)
    /\ call.ret = Usize(unwrap(call.fill) - call.sum)

\* The operations that are not borrow_mut.
NonBorrowOps ==
    {"set_input_filled", "consume_input", "assert_and_clear_input_filled", "unconsumed"}

\* C19: storage is allocated lazily. LazyBuffers::new leaves input and output
\* of length 0; set_input_filled, consume_input, assert_and_clear_input_filled
\* and unconsumed leave both lengths as they were (so both are 0 until the
\* first borrow_mut); borrow_mut leaves input of length input_size and output
\* of length output_size, the first time and every later time.
C19_LazyAllocation ==
    /\ call.op = "new" => (buf.input = <<>> /\ buf.output = <<>>)
    /\ call.op \in NonBorrowOps
       => /\ Len(buf.input) = Len(call.pre.input)
          /\ Len(buf.output) = Len(call.pre.output)
    /\ call.op = "borrow_mut"
       => /\ Len(buf.input) = buf.input_size
          /\ Len(buf.output) = buf.output_size
    /\ Len(buf.input) \in {0, buf.input_size}
    /\ Len(buf.output) \in {0, buf.output_size}
    /\ buf.input = <<>> <=> buf.output = <<>>

\* The first borrow_mut, after a fill and a consume on unallocated storage,
\* sized input and output to their different configured sizes.
C19_Witness ==
    /\ call.op = "borrow_mut"
    /\ call.pre.input = <<>>
    /\ call.pre.output = <<>>
    /\ is_some(call.pre.input_filled)
    /\ call.pre.input_consumed > 0
    /\ buf.input_size # buf.output_size
    /\ Len(buf.input) = buf.input_size
    /\ Len(buf.output) = buf.output_size

\* The call of t is on a request whose path to_url rejects.
BadCall(t) == req[t].path = "bad" /\ pc[t] \in {"locked", "finishing"}

\* C20: a call on a request whose path cannot be turned into a URL ends with
\* the BadUrl error as its result without entering the dispatcher: from the
\* lock to the return no step of it looks up the pool, runs the connector
\* chain or does transport I/O, and the shared pool and cookie jar (and the
\* record of the exchanges made) stay as they were.
C20_BadUrlSkipsDispatcher ==
    /\ [](\A t \in Threads :
            (pc[t] = "finishing" /\ req[t].path = "bad")
            => (result[t] = Err("BadUrl") /\ ~ loc[t].entered))
    /\ [][ \A t \in Threads :
            (BadCall(t) \/ (req'[t].path = "bad" /\ pc'[t] = "locked"))
            => /\ pool' = pool
               /\ jar' = jar
               /\ last' = last
               /\ ~ loc'[t].entered
               /\ loc'[t].chainRuns = 0
               /\ loc'[t].tr = None
               /\ pc'[t] \in {"locked", "finishing", "idle"} ]_vars

\* A call with a bad path has its BadUrl result while the agent's pool holds
\* an idle transport and its jar a cookie, both from an earlier call.
C20_Witness ==
    \E t \in Threads, d \in Dests :
        /\ pc[t] = "finishing"
        /\ req[t].path = "bad"
        /\ result[t] = Err("BadUrl")
        /\ pool[req[t].state][d] # None
        /\ jar[req[t].state] # {}

\* C21: in every state reached through calls on the buffer, input_consumed <=
\* input_filled when input_filled is set and input_consumed = 0 when the buffer
\* is Free; so no call ever fails with unconsumed()'s "consumed is greater than
\* filled".
C21_ConsumedWithinFilled ==
    /\ is_some(buf.input_filled) => buf.input_consumed <= unwrap(buf.input_filled)
    /\ buf.input_filled = None => buf.input_consumed = 0
    /\ call.panic => call.ret.msg # "consumed is greater than filled"
    /\ ~ unconsumed(buf).panic

\* Several consume_input calls brought input_consumed up to input_filled.
C21_Witness ==
    /\ call.op = "consume_input"
    /\ ~ call.panic
    /\ call.arg > 0
    /\ call.pre.input_consumed > 0
    /\ is_some(buf.input_filled)
    /\ buf.input_consumed = unwrap(buf.input_filled)

\* C22: a call that aborts fatally inside the dispatcher holds the lock of its
\* request's state, and the abort poisons that lock and releases it; from then
\* on every call on a request sharing that state aborts at the lock and returns
\* nothing, so no call is ever under way on a poisoned state; a call on a
\* request whose state is not poisoned takes its lock as usual; and a state is
\* poisoned only by the abort of a call that held its own lock, never by what
\* happens on unrelated state, and stays poisoned.
C22_PanicPoisonsSharedState ==
    /\ [][ \A t \in Threads :
            LET c == req[t].state
            IN  /\ (pc[t] \notin {"idle", "panicked"} /\ pc'[t] = "panicked")
                   => (holder[c] = t /\ poisoned'[c] /\ holder'[c] = NoThread)
                /\ (poisoned[c] /\ pc[t] = "idle" /\ pc'[t] # "idle")
                   => (pc'[t] = "panicked" /\ result'[t] = NoResult)
                /\ (~ poisoned[c] /\ pc[t] = "idle" /\ pc'[t] # "idle")
                   => (pc'[t] = "locked" /\ holder'[c] = t) ]_vars
    /\ [][ \A c \in Cells :
            poisoned'[c] # poisoned[c]
            => /\ poisoned'[c]
               /\ \E t \in Threads :
                    req[t].state = c /\ holder[c] = t /\ pc'[t] = "panicked" ]_vars
    /\ [](\A t \in Threads :
            poisoned[req[t].state] => pc[t] \in {"idle", "panicked"})

\* Two threads on clones of one handle: the call of one aborted in the
\* connector chain, and the call the other made afterwards aborted at the lock.
C22_Witness ==
    \E t, u \in Threads :
        /\ t # u
        /\ req[t].state = req[u].state
        /\ poisoned[req[t].state]
        /\ pc[t] = "panicked"
        /\ pc[u] = "panicked"
        /\ ncalls = 2
        /\ holder[req[t].state] = NoThread

====
